---- MODULE Spec2Model ----
(***************************************************************************)
(* Model of the Starlink command wrapper: starcomm and its helpers         *)
(* (src/starlink/wrapper.py) and the parameter-file decoder get_hds_values *)
(* (src/starlink/hdsutils.py).                                             *)
(*                                                                         *)
(* Python strings are modelled as sequences of one-character strings, so   *)
(* that lower(), rstrip(), strip(), replace() and concatenation are        *)
(* computed as Python computes them.  Python values are records            *)
(* [kind, v]; a dict is the sequence of its [k, v] items in insertion      *)
(* order.                                                                  *)
(***************************************************************************)
EXTENDS Integers, Sequences, FiniteSets, TLC

(***************************************************************************)
(* Bounds of the model.                                                    *)
(***************************************************************************)
\* most positional arguments of one call
MaxArgs == 1
\* most keyword arguments of one call
MaxKwargs == 2
\* most components directly under the root of a container
MaxTop == 2
\* most components of a structure below the root
MaxKids == 2

\* characters of a parameter or command name
MaxName == 3

(***************************************************************************)
(* Strings.                                                                *)
(***************************************************************************)
UpperChars == <<"A","B","C","D","E","F","G","H","I","J","K","L","M",
                "N","O","P","Q","R","S","T","U","V","W","X","Y","Z">>

LowerChars == <<"a","b","c","d","e","f","g","h","i","j","k","l","m",
                "n","o","p","q","r","s","t","u","v","w","x","y","z">>

\* str.lower() on one character
LowerChar(c) ==
    IF \E i \in 1..Len(UpperChars) : UpperChars[i] = c
    THEN LowerChars[CHOOSE i \in 1..Len(UpperChars) : UpperChars[i] = c]
    ELSE c

\* str.lower()
Lower(s) == [i \in 1..Len(s) |-> LowerChar(s[i])]

\* the characters str.strip() and str.rstrip() remove
IsSpace(c) == c \in {" ", "\t", "\n", "\r", "\f"}

\* str.rstrip(): trailing whitespace removed
RECURSIVE RStrip(_)
RStrip(s) ==
    IF s # <<>> /\ IsSpace(s[Len(s)]) THEN RStrip(SubSeq(s, 1, Len(s) - 1)) ELSE s

\* str.lstrip(): leading whitespace removed
RECURSIVE LStrip(_)
LStrip(s) ==
    IF s # <<>> /\ IsSpace(s[1]) THEN LStrip(Tail(s)) ELSE s

\* str.strip()
Strip(s) == LStrip(RStrip(s))

\* s[i:] starts with old
MatchAt(s, old, i) ==
    /\ i + Len(old) - 1 <= Len(s)
    /\ SubSeq(s, i, i + Len(old) - 1) = old

\* str.replace(old, new) for a non-empty old: the non-overlapping
\* occurrences, leftmost first
RECURSIVE ReplaceFrom(_, _, _, _)
ReplaceFrom(s, old, new, i) ==
    IF i > Len(s) THEN <<>>
    ELSE IF MatchAt(s, old, i)
         THEN new \o ReplaceFrom(s, old, new, i + Len(old))
         ELSE <<s[i]>> \o ReplaceFrom(s, old, new, i + 1)

Replace(s, old, new) == ReplaceFrom(s, old, new, 1)

\* old in s
Contains(s, old) == \E i \in 1..Len(s) : MatchAt(s, old, i)

\* os.path.join(a, b) for two components (POSIX)
PathJoin(a, b) ==
    IF b # <<>> /\ b[1] = "/" THEN b
    ELSE IF a = <<>> \/ a[Len(a)] = "/" THEN a \o b
    ELSE a \o <<"/">> \o b

\* the part of a path after its last "/" (the program's own name)
RECURSIVE Basename(_)
Basename(p) ==
    IF p = <<>> THEN <<>>
    ELSE IF p[Len(p)] = "/" THEN <<>>
    ELSE Basename(SubSeq(p, 1, Len(p) - 1)) \o <<p[Len(p)]>>

\* a path as the file system reads it: repeated "/" count once
RECURSIVE CollapseSlashes(_)
CollapseSlashes(p) ==
    IF Len(p) < 2 THEN p
    ELSE IF p[1] = "/" /\ p[2] = "/" THEN CollapseSlashes(Tail(p))
    ELSE <<p[1]>> \o CollapseSlashes(Tail(p))

(***************************************************************************)
(* Python values: [kind, v].                                               *)
(***************************************************************************)
PyNone == [kind |-> "None", v |-> 0]
PyBool(b) == [kind |-> "bool", v |-> b]
\* an int holds its decimal numeral
PyInt(n) == [kind |-> "int", v |-> n]
PyStr(s) == [kind |-> "str", v |-> s]
PyBytes(s) == [kind |-> "bytes", v |-> s]
PyList(items) == [kind |-> "list", v |-> items]
PyDict(items) == [kind |-> "dict", v |-> items]
PyTuple(items) == [kind |-> "tuple", v |-> items]

\* what communicate() and hds hand back for text: bytes on Python 3, and on
\* Python 2 the str type, which is the bytes type
PyText(isPy3, s) == IF isPy3 THEN PyBytes(s) ELSE PyStr(s)

\* str(x) for the values a caller passes
Str(x) ==
    CASE x.kind = "str"  -> x.v
      [] x.kind = "bool" -> IF x.v THEN <<"T","r","u","e">>
                                   ELSE <<"F","a","l","s","e">>
      [] x.kind = "int"  -> x.v
      [] x.kind = "None" -> <<"N","o","n","e">>

\* bool(x)
Truthy(x) ==
    CASE x.kind = "bool" -> x.v
      [] x.kind = "int"  -> x.v # <<"0">>
      [] x.kind = "None" -> FALSE
      [] OTHER           -> Len(x.v) > 0

\* dict: the items [k, v] in insertion order
DictKeys(d) == [i \in 1..Len(d) |-> d[i].k]

DictHas(d, key) == \E i \in 1..Len(d) : d[i].k = key

DictGet(d, key) == d[CHOOSE i \in 1..Len(d) : d[i].k = key].v

\* d[key] = value: an existing key keeps its place
DictSet(d, key, value) ==
    IF DictHas(d, key)
    THEN [i \in 1..Len(d) |-> IF d[i].k = key THEN [k |-> key, v |-> value] ELSE d[i]]
    ELSE Append(d, [k |-> key, v |-> value])

\* a pop that removes nothing
DictPop_keep(d, key) == d

\* d.pop(key)
DictPop(d, key) == SelectSeq(d, LAMBDA it : it.k # key)

\* dict(pairs): later pairs overwrite earlier ones
RECURSIVE DictFrom(_)
DictFrom(pairs) ==
    IF pairs = <<>> THEN <<>>
    ELSE LET n == Len(pairs)
         IN  DictSet(DictFrom(SubSeq(pairs, 1, n - 1)), pairs[n].k, pairs[n].v)

\* the orderings of the items of a sequence
RECURSIVE Perms(_)
Perms(items) ==
    IF items = <<>> THEN {<<>>}
    ELSE UNION { {<<items[i]>> \o rest :
                     rest \in Perms([j \in 1..(Len(items) - 1) |->
                                        IF j < i THEN items[j] ELSE items[j + 1]])}
                 : i \in 1..Len(items) }

\* the orders in which d.items() may yield the items of a dict: the order of
\* insertion on Python 3 (3.7 and later), an order the caller has no hold on
\* on Python 2, where a dict is a plain hash table
DictOrders(isPy3, d) == IF isPy3 THEN {d} ELSE Perms(d)

(***************************************************************************)
(* Names and paths of the session.                                         *)
(***************************************************************************)
KAPPA_DIR == <<"K","A","P","P","A","_","D","I","R">>

SMURF_DIR == <<"S","M","U","R","F","_","D","I","R">>

STARLINK_DIR == <<"S","T","A","R","L","I","N","K","_","D","I","R">>

\* the install roots a session is pointed at
RootA == <<"/","s">>

RootB == <<"/","t">>

InstallRoots == {RootA, RootB}

\* the program every installation holds: <root>/bin/kappa/stats
StatsRel == <<"b","i","n","/","k","a","p","p","a","/","s","t","a","t","s">>

\* a file every installation holds that is not executable: <root>/news
NewsRel == <<"n","e","w","s">>

\* errno of subprocess.Popen([path, ...]): 0 when the child starts, 2 (ENOENT)
\* when no such file exists, 13 (EACCES) when the file is not executable
PopenErrno(path) ==
    LET p == CollapseSlashes(path)
    IN  IF \E r \in InstallRoots : p = PathJoin(r, StatsRel) THEN 0
        ELSE IF \E r \in InstallRoots : p = PathJoin(r, NewsRel) THEN 13
        ELSE 2

\* the relative path tempfile.mkdtemp and os.path.relpath give the session
TmpAdam == <<"t","m","p","A","D","A","M">>

\* os.getcwd() when the module is imported
StartDir == <<"/","w">>

\* a directory the caller may change to
OtherDir == <<"/","o">>

WorkDirs == {StartDir, OtherDir}

(***************************************************************************)
(* The process environment.                                                *)
(***************************************************************************)
\* the package directories relative to STARLINK_DIR, in the table's order
\* (three of its entries; the loops below treat every entry alike)
starlink_environdict_substitute ==
    << [key |-> "KAPPA_DIR", name |-> KAPPA_DIR,
        rel |-> <<"b","i","n","/","k","a","p","p","a">>],
       [key |-> "SMURF_DIR", name |-> SMURF_DIR,
        rel |-> <<"b","i","n","/","s","m","u","r","f">>],
       [key |-> "STARLINK_DIR", name |-> STARLINK_DIR, rel |-> <<>>] >>

\* env[key] = value on a mapping from variable names to strings
EnvPut(e, key, value) ==
    [x \in (DOMAIN e) \cup {key} |-> IF x = key THEN value ELSE e[x]]

\* for module_env, modulepath in starlink_environdict_substitute.items():
\*     env[module_env] = os.path.join(starpath, modulepath)
RECURSIVE EnvPackageDirs(_, _, _)
EnvPackageDirs(e, root, i) ==
    IF i > Len(starlink_environdict_substitute) THEN e
    ELSE LET t == starlink_environdict_substitute[i]
         IN  EnvPackageDirs(EnvPut(e, t.key, PathJoin(root, t.rel)), root, i + 1)

\* a setup_starlink_environ that leaves the child to the directory 'adam'
\* instead of the session's scratch directory
setup_starlink_environ_adam(root, dir, noprompt) ==
    LET e0 == [x \in {"STARLINK_DIR", "AGI_USER"} |->
                  IF x = "STARLINK_DIR" THEN root ELSE dir]
        e1 == EnvPut(EnvPut(e0, "ADAM_NOPROMPT", <<"1">>),
                     "STARUTIL_NOPROMPT", <<"1">>)
        e2 == EnvPut(e1, "ADAM_EXIT", <<"1">>)
        e3 == EnvPut(e2, "ADAM_USER", <<"a","d","a","m">>)
    IN  EnvPackageDirs(e3, root, 1)

\* setup_starlink_environ(starpath, adamdir, noprompt): the entries the
\* invoker, the child and set_interactive read
setup_starlink_environ(root, dir, noprompt) ==
    LET e0 == [x \in {"STARLINK_DIR", "AGI_USER"} |->
                  IF x = "STARLINK_DIR" THEN root ELSE dir]
        e1 == IF noprompt
              THEN EnvPut(EnvPut(e0, "ADAM_NOPROMPT", <<"1">>),
                          "STARUTIL_NOPROMPT", <<"1">>)
              ELSE e0
        e2 == EnvPut(e1, "ADAM_EXIT", <<"1">>)
        e3 == EnvPut(e2, "ADAM_USER", dir)
    IN  EnvPackageDirs(e3, root, 1)

(***************************************************************************)
(* The argument vector.                                                    *)
(***************************************************************************)
\* for i in args: output.append(str(i) + ' ')
PositionalElements(args) == [i \in 1..Len(args) |-> Str(args[i]) \o <<" ">>]

\* a naming that sends the keyword as the mapping has it
KeywordName_keep(key) == key

\* the name a keyword is sent under: one trailing '_' stripped
KeywordName(key) ==
    IF key[Len(key)] = "_" THEN SubSeq(key, 1, Len(key) - 1) ELSE key

\* output.append(str(key) + '=' + str(value))
KeywordElements(kwargs) ==
    [i \in 1..Len(kwargs) |->
        KeywordName(kwargs[i].k) \o <<"=">> \o Str(kwargs[i].v)]

\* s[1] + ' ' + s[2] + ... : the elements in one string
RECURSIVE JoinSpaces(_)
JoinSpaces(elems) ==
    IF elems = <<>> THEN <<>>
    ELSE IF Len(elems) = 1 THEN elems[1]
    ELSE elems[1] \o <<" ">> \o JoinSpaces(Tail(elems))

\* an argument builder that hands over one string holding every argument
make_argument_joined(args, kwargs) ==
    LET output == PositionalElements(args) \o KeywordElements(kwargs)
    IN  IF output = <<>> THEN <<>>
        ELSE << JoinSpaces([i \in 1..Len(output) |-> RStrip(output[i])]) >>

\* _make_argument_list(*args, **kwargs)
make_argument_list(args, kwargs) ==
    LET output == PositionalElements(args) \o KeywordElements(kwargs)
    IN  [i \in 1..Len(output) |-> RStrip(output[i])]

(***************************************************************************)
(* starcomm, up to the launch of the child.                                *)
(***************************************************************************)
returnStdOutKey == <<"r","e","t","u","r","n","S","t","d","O","u","t">>

\* kwargs = dict((k.lower(), v) for k, v in kwargs.items())
LowerKwargs(kwargs) ==
    DictFrom([i \in 1..Len(kwargs) |->
                 [k |-> Lower(kwargs[i].k), v |-> kwargs[i].v]])

\* returnStdOut = kwargs.get('returnStdOut', False), read after the
\* keywords were lower-cased
GetReturnStdOut(kwargs) ==
    IF DictHas(kwargs, returnStdOutKey)
    THEN DictGet(kwargs, returnStdOutKey)
    ELSE PyBool(FALSE)

\* a substitution that knows the form $NAME only
SubstituteOne_dollar(command, t, e) ==
    Replace(command, <<"$">> \o t.name, e[t.key])

\* one turn of the substitution loop:
\*     command = command.replace('$' + i, env[i])
\*     command = command.replace('${' + i + '}', env[i])
SubstituteOne(command, t, e) ==
    Replace(Replace(command, <<"$">> \o t.name, e[t.key]),
            <<"$", "{">> \o t.name \o <<"}">>, e[t.key])

\* for i, j in starlink_environdict_substitute.items(): ...
RECURSIVE SubstituteFrom(_, _, _)
SubstituteFrom(command, e, i) ==
    IF i > Len(starlink_environdict_substitute) THEN command
    ELSE SubstituteFrom(
             SubstituteOne(command, starlink_environdict_substitute[i], e),
             e, i + 1)

ResolveCommand(command, e) == SubstituteFrom(command, e, 1)

(***************************************************************************)
(* Results of a call: a value returned or an exception raised.             *)
(***************************************************************************)
Return(x) == [kind |-> "return", v |-> x]

Raise(etype, info) == [kind |-> "raise", v |-> [etype |-> etype, info |-> info]]

(***************************************************************************)
(* The HDS container and its decoder (hdsutils.py).                        *)
(*                                                                         *)
(* A component is [name, struc, type, shape, value, comps]: a structure    *)
(* has comps, a primitive has type, shape (<<>> for a scalar) and value,   *)
(* the sequence of its elements (one for a scalar), each as text.          *)
(***************************************************************************)
\* keyword.kwlist
Keywords ==
    { <<"i","n">>,
      <<"i","s">>,
      <<"i","f">>,
      <<"o","r">>,
      <<"a","s">>,
      <<"f","o","r">>,
      <<"n","o","t">>,
      <<"a","n","d">>,
      <<"d","e","l">>,
      <<"d","e","f">>,
      <<"t","r","y">>,
      <<"f","r","o","m">>,
      <<"w","i","t","h">>,
      <<"p","a","s","s">>,
      <<"e","l","s","e">>,
      <<"e","l","i","f">>,
      <<"g","l","o","b","a","l">>,
      <<"i","m","p","o","r","t">>,
      <<"l","a","m","b","d","a">>,
      <<"c","l","a","s","s">>,
      <<"w","h","i","l","e">>,
      <<"y","i","e","l","d">>,
      <<"r","e","t","u","r","n">>,
      <<"r","a","i","s","e">>,
      <<"b","r","e","a","k">>,
      <<"e","x","c","e","p","t">>,
      <<"f","i","n","a","l","l","y">>,
      <<"c","o","n","t","i","n","u","e">>,
      <<"a","s","s","e","r","t">> }

\* keyword.iskeyword(name)
iskeyword(name) == name \in Keywords

\* a naming that appends the marker to every name
FieldName_always(hdsname) == Lower(hdsname) \o <<"_">>

\* name = hdscomp.name.lower(); if iskeyword(name): name += '_'
FieldName(hdsname) ==
    LET name == Lower(hdsname)
    IN  IF iskeyword(name) THEN name \o <<"_">> ELSE name

CharWord == <<"c","h","a","r">>

\* hdscomp.get(): text comes back as PyText, an array as an ndarray
HdsGet(c, isPy3) ==
    IF Contains(Lower(c.type), CharWord)
    THEN IF c.shape # <<>>
         THEN [kind |-> "ndarray",
               v |-> [i \in 1..Len(c.value) |-> PyText(isPy3, c.value[i])]]
         ELSE PyText(isPy3, c.value[1])
    ELSE IF c.shape # <<>>
         THEN [kind |-> "ndarray",
               v |-> [i \in 1..Len(c.value) |-> PyInt(c.value[i])]]
         ELSE PyInt(c.value[1])

\* a _hds_value_get that hands back what hdscomp.get() gave
hds_value_get_raw(c, isPy3) == HdsGet(c, isPy3)

\* _hds_value_get(hdscomp): the value, with white space stripped from text
hds_value_get(c, isPy3) ==
    LET value == HdsGet(c, isPy3)
    IN  IF Contains(Lower(c.type), CharWord)
        THEN IF c.shape # <<>>
             THEN PyList([i \in 1..Len(value.v) |->
                             [kind |-> value.v[i].kind, v |-> Strip(value.v[i].v)]])
             ELSE [kind |-> value.kind, v |-> Strip(value.v)]
        ELSE value

\* a decoder that merges the fields of a structure into the enclosing
\* mapping instead of nesting them under the structure's name
RECURSIVE hds_iterate_flat(_, _, _)
hds_iterate_flat(comps, isPy3, n) ==
    IF n = 0 THEN <<>>
    ELSE LET d == hds_iterate_flat(comps, isPy3, n - 1)
             c == comps[n]
         IN  IF c.struc
             THEN DictFrom(d \o hds_iterate_flat(c.comps, isPy3, Len(c.comps)))
             ELSE DictSet(d, FieldName(c.name), hds_value_get(c, isPy3))

\* _hds_iterate_components(hdscomp): results_dict after the first n
\* components of comps
RECURSIVE hds_iterate_components(_, _, _)
hds_iterate_components(comps, isPy3, n) ==
    IF n = 0 THEN <<>>
    ELSE LET d == hds_iterate_components(comps, isPy3, n - 1)
             c == comps[n]
         IN  IF c.struc
             THEN DictSet(d, FieldName(c.name),
                          PyDict(hds_iterate_components(c.comps, isPy3, Len(c.comps))))
             ELSE DictSet(d, FieldName(c.name), hds_value_get(c, isPy3))

adam_dyndef == <<"a","d","a","m","_","d","y","n","d","e","f">>

nameptr == <<"n","a","m","e","p","t","r">>

\* a decoder that leaves the nameptr structures as they are
FixupNameptr_skip(results) == results

\* results[i] = results[i]['nameptr'] for the i of fixuplist
FixupNameptr(results) ==
    [i \in 1..Len(results) |->
        IF results[i].v.kind = "dict" /\ DictKeys(results[i].v.v) = <<nameptr>>
        THEN [k |-> results[i].k, v |-> DictGet(results[i].v.v, nameptr)]
        ELSE results[i]]

\* j.decode(encoding='ascii') if isinstance(j, bytes) and not isinstance(j, str) else j
DecodeItem(j) == IF j.kind = "bytes" THEN PyStr(j.v) ELSE j

\* what iterating a value yields; <<>> with ok FALSE stands for the TypeError
\* of a value that cannot be iterated
IterItems(value) ==
    CASE value.kind \in {"list", "ndarray", "tuple"} -> value.v
      [] value.kind = "dict" -> [i \in 1..Len(value.v) |-> PyStr(value.v[i].k)]
      [] OTHER -> <<>>

Iterable(value) == value.kind \in {"list", "ndarray", "tuple", "dict"}

\* one turn of the loop 'for key in results' (hdsutils.py lines 33-48)
NormaliseValue(value) ==
    IF value.kind = "bytes" THEN PyStr(value.v)
    ELSE IF value.kind = "str" THEN value
    ELSE IF Iterable(value)
         THEN PyList([i \in 1..Len(IterItems(value)) |-> DecodeItem(IterItems(value)[i])])
         ELSE value

NormaliseAll(results) ==
    [i \in 1..Len(results) |-> [k |-> results[i].k, v |-> NormaliseValue(results[i].v)]]

\* the first character of an identifier that namedtuple accepts as a field
\* name: a letter (names that start with '_' are refused as well)
IsLetter(c) ==
    \E i \in 1..Len(LowerChars) : c = LowerChars[i] \/ c = UpperChars[i]

\* namedtuple(comname, results.keys()) accepts the names; it raises
\* ValueError otherwise
NamedTupleOk(comname, keys) ==
    /\ ~ iskeyword(comname)
    /\ \A i \in 1..Len(keys) :
           keys[i] # <<>> /\ IsLetter(keys[i][1]) /\ ~ iskeyword(keys[i])

\* a scratch directory in which no file is ever found
FileAt_none(fs, dir, name) == {}

\* the files of the scratch directories: a set of [dir, name, hds]
FileAt(files, dir, name) == {f \in files : f.dir = dir /\ f.name = name}

\* the body of get_hds_values once hds.open has succeeded (lines 17-54)
DecodeOpened(comname, hdsobj, isPy3) ==
    LET r0 == hds_iterate_components(hdsobj.comps, isPy3, Len(hdsobj.comps))
        r1 == IF DictHas(r0, adam_dyndef) THEN DictPop(r0, adam_dyndef) ELSE r0
        r2 == FixupNameptr(r1)
        r3 == NormaliseAll(r2)
    IN  IF NamedTupleOk(comname, DictKeys(r3))
        THEN Return([kind |-> "starresults", v |-> r3])
        ELSE Raise("ValueError", comname)

\* a file that is there but that the HDS library cannot read as a
\* container (damaged, cut short, not readable): its root is no structure,
\* and its name says which exception the library reports the failure with,
\* IOError as for a file that is not there, or the library's own hds.error
Unreadable(tag) == [name |-> tag, struc |-> FALSE, type |-> <<>>, shape |-> <<>>,
                    value |-> <<>>, comps |-> <<>>]

UnreadableFiles == {Unreadable(<<"I","O">>), Unreadable(<<"H","D","S">>)}

IsUnreadable(hdsobj) == ~ hdsobj.struc

\* the exception of hds.open(filename, 'READ') on such a file
OpenError(hdsobj) == IF hdsobj.name = <<"I","O">> THEN "IOError" ELSE "HdsError"

\* hds.open and the rest of the try block (lines 16-54) on a file that is
\* there
OpenAndDecode(comname, hdsobj, isPy3) ==
    IF IsUnreadable(hdsobj)
    THEN Raise(OpenError(hdsobj), comname)
    ELSE DecodeOpened(comname, hdsobj, isPy3)

\* except IOError: result = None (lines 55-56); every other exception of
\* the try block leaves get_hds_values
ExceptIOError(r) ==
    IF r.kind = "raise" /\ r.v.etype = "IOError" THEN Return(PyNone) ELSE r

\* a get_hds_values without the 'except IOError' clause
get_hds_values_raising(comname, dir, files, isPy3) ==
    LET found == FileAt(files, dir, comname)
    IN  IF found = {} THEN Raise("IOError", comname)
        ELSE OpenAndDecode(comname, (CHOOSE f \in found : TRUE).hds, isPy3)

\* get_hds_values(comname, adamdir): hds.open raises IOError when there is
\* no file os.path.join(adamdir, comname), and the result is then None
get_hds_values(comname, dir, files, isPy3) ==
    LET found == FileAt(files, dir, comname)
    IN  ExceptIOError(
            IF found = {} THEN Raise("IOError", comname)
            ELSE OpenAndDecode(comname, (CHOOSE f \in found : TRUE).hds, isPy3))

(***************************************************************************)
(* Inputs of the model.                                                    *)
(***************************************************************************)
\* the sequences over S of length at most n
SeqsUpTo(S, n) == UNION {[1..m -> S] : m \in 0..n}

\* Python does not let one call name a keyword twice
DistinctKeys(items) ==
    \A i, j \in 1..Len(items) : items[i].k = items[j].k => i = j

ArgValues == {PyStr(<<"a">>), PyStr(<<"b", " ">>), PyInt(<<"1">>)}

ArgLists == SeqsUpTo(ArgValues, MaxArgs)

\* ndf='x', NDF='Y ', in_='z', returnStdOut=True, returnStdOut=False
KwItems ==
    { [k |-> <<"n","d","f">>, v |-> PyStr(<<"x">>)],
      [k |-> <<"N","D","F">>, v |-> PyStr(<<"Y", " ">>)],
      [k |-> <<"i","n","_">>, v |-> PyStr(<<"z">>)],
      [k |-> returnStdOutKey, v |-> PyBool(TRUE)],
      [k |-> returnStdOutKey, v |-> PyBool(FALSE)] }

KwargLists == {kw \in SeqsUpTo(KwItems, MaxKwargs) : DistinctKeys(kw)}

\* '$KAPPA_DIR/stats'
CmdDollar == <<"$">> \o KAPPA_DIR \o <<"/","s","t","a","t","s">>

\* '${KAPPA_DIR}/stats'
CmdBraces == <<"$", "{">> \o KAPPA_DIR \o <<"}">> \o <<"/","s","t","a","t","s">>

\* '${KAPPA_DIR}$KAPPA_DIR': both forms in one command
CmdTwice == <<"$", "{">> \o KAPPA_DIR \o <<"}", "$">> \o KAPPA_DIR

\* '$STARLINK_DIR/news': a file that cannot be executed
CmdNews == <<"$">> \o STARLINK_DIR \o <<"/">> \o NewsRel

\* '$SMURF_DIR/stats': no such program
CmdSmurf == <<"$">> \o SMURF_DIR \o <<"/","s","t","a","t","s">>

\* '/nope': no such program, and no placeholder
CmdNope == <<"/","n","o","p","e">>

Commands == {CmdDollar, CmdBraces, CmdTwice, CmdNews, CmdSmurf, CmdNope}

stats == <<"s","t","a","t","s">>

copy == <<"c","o","p","y">>

CommandNames == {stats, copy}

\* the calls of the model: every command and command name with and without
\* returnStdOut, and every argument list with the command '$KAPPA_DIR/stats'
CallInputs ==
    [command : Commands, commandname : CommandNames, args : {<<>>},
     kwargs : {<<>>, << [k |-> returnStdOutKey, v |-> PyBool(TRUE)] >>}]
    \cup
    [command : {CmdDollar}, commandname : {stats}, args : ArgLists,
     kwargs : KwargLists]

\* primitive components a child writes
LeafMean == [name |-> <<"M","E","A","N">>, struc |-> FALSE,
             type |-> <<"_","I","N","T","E","G","E","R">>, shape |-> <<>>,
             value |-> << <<"3">> >>, comps |-> <<>>]

LeafNameptr(text) == [name |-> <<"N","A","M","E","P","T","R">>, struc |-> FALSE,
                      type |-> <<"_","C","H","A","R","*","8">>, shape |-> <<>>, value |-> <<text>>, comps |-> <<>>]

Struct(name, comps) == [name |-> name, struc |-> TRUE,
                        type |-> <<>>, shape |-> <<>>, value |-> <<>>, comps |-> comps]

\* the root of a container file
Container(comps) == Struct(<<>>, comps)

\* the parameter files the child of the session model writes
ChildContainers ==
    { Container(<<LeafMean>>),
      Container(<<Struct(<<"N","D","F">>, <<LeafNameptr(<<"M","3","1">>)>>)>>) }

NoWrite == Container(<<>>)

\* what a child leaves behind: exit status, stdout and stderr
ChildOutputs ==
    { [status |-> 0, stdout |-> <<"o","k">>, stderr |-> <<>>],
      [status |-> 1, stdout |-> <<"b","o","o","m">>, stderr |-> <<>>],
      [status |-> 1, stdout |-> <<"b","o","o","m">>, stderr |-> <<"e","r","r">>] }

(***************************************************************************)
(* The session: module state of wrapper.py, the scratch directory, the     *)
(* one call in progress and its child process.                             *)
(***************************************************************************)
VARIABLES
    py3,        \* the interpreter is Python 3 (else Python 2)
    starpath,   \* wrapper.starpath: None or the install root
    env,        \* wrapper.env: None or the environment mapping
    adamdir,    \* wrapper.adamdir: the scratch directory's path
    dirs,       \* the scratch directories that exist
    files,      \* the parameter files in them: [dir, name, hds]
    session,    \* "running", or "ended" once the exit hooks have run
    pc,         \* "idle", "running" (child started), "exited", "done"
    call,       \* the arguments of the current starcomm call
    frame,      \* its locals: kwargs, returnStdOut, arg, command
    proc,       \* the child: state, argv, env, shell, status, stdout, stderr
    outcome,    \* what the call returned or raised
    spawns,     \* Popen calls made by the current call
    decodes,    \* get_hds_values calls made by the current call
    cwd,        \* the working directory of the interpreter
    tid,        \* the thread whose call pc, call, frame, proc, outcome describe
    other       \* the call of the thread that is not running now

vars == << py3, starpath, env, adamdir, dirs, files, session, pc, call, frame,
           proc, outcome, spawns, decodes, cwd, tid, other >>

NoCall == [command |-> <<>>, commandname |-> <<>>, args |-> <<>>, kwargs |-> <<>>]

NoFrame == [kwargs |-> <<>>, returnStdOut |-> PyBool(FALSE), arg |-> <<>>,
            command |-> <<>>]

\* wrote: the container the child put under its ADAM_USER, NoWrite for none
NoProc == [state |-> "none", argv |-> <<>>, env |-> <<>>, shell |-> FALSE,
           status |-> 0, stdout |-> <<>>, stderr |-> <<>>, wrote |-> NoWrite]

Pending == [kind |-> "pending", v |-> 0]

\* a thread that has made no call
IdleThread == [pc |-> "idle", call |-> NoCall, frame |-> NoFrame, proc |-> NoProc,
               outcome |-> Pending, spawns |-> 0, decodes |-> 0]

\* the module body of wrapper.py (lines 459-489): starpath from
\* $STARLINK_DIR when it is set, the scratch directory, the exit hook, and
\* the environment when a starpath was found
InitSession ==
    /\ py3 \in BOOLEAN
    /\ starpath \in {PyNone, PyStr(RootA)}
    /\ cwd = StartDir
    /\ adamdir = TmpAdam
    /\ env = IF starpath = PyNone THEN PyNone
             ELSE PyDict(setup_starlink_environ(starpath.v, TmpAdam, TRUE))
    /\ dirs = {PathJoin(StartDir, TmpAdam)}
    /\ files = {}
    /\ session = "running"

Init ==
    /\ InitSession
    /\ pc = "idle"
    /\ call = NoCall
    /\ frame = NoFrame
    /\ proc = NoProc
    /\ outcome = Pending
    /\ spawns = 0
    /\ decodes = 0
    /\ tid = 1
    /\ other = IdleThread

\* change_starpath(starlinkdir)
change_starpath(starlinkdir) ==
    /\ session = "running"
    /\ pc = "idle"
    /\ env' = PyDict(setup_starlink_environ(starlinkdir, adamdir, TRUE))
    /\ starpath' = PyStr(starlinkdir)
    /\ UNCHANGED << py3, cwd, tid, other, adamdir, dirs, files, session, pc,
                    call, frame, proc,
                    outcome, spawns, decodes >>

\* the noprompt argument of star.py's change_starpath:
\*     if utils.env: noprompt = utils.env.get('ADAM_NOPROMPT', True)
\*     else: noprompt = True
NoPromptArg(e) ==
    IF e # PyNone /\ DOMAIN e.v # {}
    THEN IF "ADAM_NOPROMPT" \in DOMAIN e.v
         THEN PyStr(e.v["ADAM_NOPROMPT"]) ELSE PyBool(TRUE)
    ELSE PyBool(TRUE)

\* change_starpath(starpath) of star.py (lines 78-89): utils.env is built
\* again; utils.starpath is not assigned
star_change_starpath(starlinkdir) ==
    /\ session = "running"
    /\ pc = "idle"
    /\ env' = PyDict(setup_starlink_environ(starlinkdir, adamdir,
                                            Truthy(NoPromptArg(env))))
    /\ UNCHANGED << py3, cwd, tid, other, starpath, adamdir, dirs, files,
                    session,
                    pc, call, frame, proc, outcome, spawns, decodes >>

\* str(int(not bool(choice)))
NoPromptText(choice) == IF choice THEN <<"0">> ELSE <<"1">>

\* a set_interactive that sets the flag of the starutil scripts as well
InteractiveEnv_both(e, choice) ==
    EnvPut(EnvPut(e, "ADAM_NOPROMPT", NoPromptText(choice)),
           "STARUTIL_NOPROMPT", NoPromptText(choice))

\* utils.env["ADAM_NOPROMPT"] = str(int(not bool(choice)))
InteractiveEnv(e, choice) == EnvPut(e, "ADAM_NOPROMPT", NoPromptText(choice))

\* set_interactive(choice) of star.py (lines 61-76); with utils.env None the
\* assignment raises TypeError and nothing changes
set_interactive(choice) ==
    /\ session = "running"
    /\ pc = "idle"
    /\ env # PyNone
    /\ env' = PyDict(InteractiveEnv(env.v, choice))
    /\ UNCHANGED << py3, cwd, tid, other, starpath, adamdir, dirs, files,
                    session,
                    pc, call, frame, proc, outcome, spawns, decodes >>

\* the caller changes the working directory between two calls (os.chdir)
chdir(d) ==
    /\ session = "running"
    /\ pc = "idle"
    /\ d # cwd
    /\ cwd' = d
    /\ UNCHANGED << py3, tid, other, starpath, env, adamdir, dirs, files, session,
                    pc, call, frame, proc, outcome, spawns, decodes >>

\* the keyword mappings starcomm may hand to _make_argument_list (lines
\* 338-351), as that function iterates them: **kwargs is a dict, the
\* lower-cased copy is built from its items(), and the loop of line 437
\* reads the copy's items()
StarcommKwargs(isPy3, kwargs) ==
    UNION { DictOrders(isPy3, LowerKwargs(k0)) : k0 \in DictOrders(isPy3, kwargs) }

\* an except clause that raises every OSError of Popen again unchanged
PopenFailure_reraise(errno, command) ==
    Raise("OSError", [errno |-> errno, notfound |-> FALSE, command |-> command])

\* the except clause of starcomm (lines 399-405) on the OSError of Popen
PopenFailure(errno, command) ==
    IF errno = 2
    THEN Raise("OSError", [errno |-> 0, notfound |-> TRUE, command |-> command])
    ELSE Raise("OSError", [errno |-> errno, notfound |-> FALSE, command |-> command])

\* starcomm(command, commandname, *args, **kwargs) up to proc.communicate()
\* (lines 338-369): the call ends here when env is None (env[i] raises
\* TypeError) or when Popen raises OSError
starcomm_call(in) ==
    /\ session = "running"
    /\ pc = "idle"
    /\ \E kwargs \in StarcommKwargs(py3, in.kwargs) :
       LET returnStdOut == GetReturnStdOut(kwargs)
           arg == make_argument_list(in.args, kwargs)
       IN  /\ call' = in
           /\ decodes' = 0
           /\ IF env = PyNone
              THEN /\ frame' = [kwargs |-> kwargs, returnStdOut |-> returnStdOut,
                                arg |-> arg, command |-> in.command]
                   /\ proc' = NoProc
                   /\ spawns' = 0
                   /\ outcome' = Raise("TypeError", "NoneType is not subscriptable")
                   /\ pc' = "done"
              ELSE LET command == ResolveCommand(in.command, env.v)
                       errno == PopenErrno(command)
                   IN  /\ frame' = [kwargs |-> kwargs, returnStdOut |-> returnStdOut,
                                    arg |-> arg, command |-> command]
                       /\ spawns' = 1
                       /\ IF errno = 0
                          THEN /\ proc' = [NoProc EXCEPT !.state = "running",
                                                         !.argv = <<command>> \o arg,
                                                         !.env = env.v]
                               /\ outcome' = Pending
                               /\ pc' = "running"
                          ELSE /\ proc' = NoProc
                               /\ outcome' = PopenFailure(errno, command)
                               /\ pc' = "done"
    /\ UNCHANGED << py3, cwd, tid, other, starpath, env, adamdir, dirs,
                    files, session >>

\* the external program: it may write its parameter file, named after the
\* program, into $ADAM_USER, a path relative to the working directory it
\* inherits (it writes nothing when there is no such directory), and it exits
child_exit(out, hds) ==
    /\ pc = "running"
    /\ LET dir == PathJoin(cwd, proc.env["ADAM_USER"])
           name == Basename(proc.argv[1])
       IN  files' = IF hds = NoWrite \/ dir \notin dirs THEN files
                    ELSE (files \ FileAt(files, dir, name))
                         \cup {[dir |-> dir, name |-> name, hds |-> hds]}
    /\ proc' = [proc EXCEPT !.state = "exited", !.status = out.status,
                            !.stdout = out.stdout, !.stderr = out.stderr,
                            !.wrote = IF PathJoin(cwd, proc.env["ADAM_USER"]) \in dirs
                                      THEN hds ELSE NoWrite]
    /\ pc' = "exited"
    /\ UNCHANGED << py3, cwd, tid, other, starpath, env, adamdir, dirs,
                    session, call, frame,
                    outcome, spawns, decodes >>

\* raise Exception('Starlink error occured during command:\n%s %s\n ...'
\*                 % (command, arg) + ... + stdout + '\n' + stderr)
\* (lines 378-381): stdout and stderr are bytes on Python 3, and adding
\* bytes to a str is a TypeError
ExecutionFailure(isPy3, command, arg, stdout, stderr) ==
    IF isPy3
    THEN Raise("TypeError", "can only concatenate str (not bytes) to str")
    ELSE Raise("Exception", [command |-> command, arg |-> arg,
                             stdout |-> stdout, stderr |-> stderr])

\* a starcomm that decodes whatever the exit status
ShouldDecode_always(status) == TRUE

\* starcomm decodes after this exit status: 'if status != 0: raise ... else:'
ShouldDecode(status) == status = 0

\* if returnStdOut: result = (result, stdout)
StarcommResult(returnStdOut, result, stdout) ==
    IF Truthy(returnStdOut) THEN PyTuple(<<result, stdout>>) ELSE result

\* a starcomm that starts the program again after a non-zero exit
PopensAfterExit_retry(status, n) == IF status # 0 THEN n + 1 ELSE n

\* the Popen calls of the call once starcomm is past proc.communicate():
\* lines 370-405 hold no Popen and no loop, so their number stays
PopensAfterExit(status, n) == n

\* the except clause of starcomm (lines 399-405) around the decode: the try
\* block of line 357 holds the call of get_hds_values too
ExceptOSError(r, command) ==
    IF r.v.etype = "OSError" THEN PopenFailure(r.v.info.errno, command) ELSE r

\* starcomm after proc.communicate() (lines 370-395)
starcomm_return ==
    /\ pc = "exited"
    /\ IF ~ ShouldDecode(proc.status)
       THEN /\ outcome' = ExecutionFailure(py3, frame.command, frame.arg,
                                           proc.stdout, proc.stderr)
            /\ decodes' = decodes
       ELSE LET r == get_hds_values(call.commandname, PathJoin(cwd, adamdir),
                                    files, py3)
            IN  /\ decodes' = decodes + 1
                /\ outcome' = IF r.kind = "raise"
                              THEN ExceptOSError(r, frame.command)
                              ELSE Return(StarcommResult(frame.returnStdOut, r.v,
                                                         PyText(py3, proc.stdout)))
    /\ spawns' = PopensAfterExit(proc.status, spawns)
    /\ pc' = "done"
    /\ UNCHANGED << py3, cwd, tid, other, starpath, env, adamdir, dirs,
                    files, session, call, frame, proc >>

\* the caller has the result or the exception: the call's frame is gone
call_end ==
    /\ pc = "done"
    /\ pc' = "idle"
    /\ call' = NoCall
    /\ frame' = NoFrame
    /\ proc' = NoProc
    /\ outcome' = Pending
    /\ spawns' = 0
    /\ decodes' = 0
    /\ UNCHANGED << py3, cwd, tid, other, starpath, env, adamdir, dirs,
                    files, session >>

\* atexit: shutil.rmtree(adamdir) when the interpreter exits; adamdir is a
\* relative path, so the tree removed is the one of that name below the
\* working directory of that moment (rmtree raises when there is none)
session_end ==
    /\ session = "running"
    /\ pc = "idle"
    /\ session' = "ended"
    /\ dirs' = dirs \ {PathJoin(cwd, adamdir)}
    /\ files' = {f \in files : f.dir # PathJoin(cwd, adamdir)}
    /\ UNCHANGED << py3, cwd, tid, other, starpath, env, adamdir, pc, call,
                    frame, proc, outcome,
                    spawns, decodes >>

\* the interpreter is killed (a signal, os._exit): no exit hook runs
session_abort ==
    /\ session = "running"
    /\ pc = "idle"
    /\ session' = "killed"
    /\ UNCHANGED << py3, cwd, tid, other, starpath, env, adamdir, dirs,
                    files, pc,
                    call, frame, proc, outcome, spawns, decodes >>

Next ==
    \/ \E in \in CallInputs : starcomm_call(in)
    \/ \E out \in ChildOutputs, hds \in ChildContainers \cup {NoWrite} :
           child_exit(out, hds)
    \/ starcomm_return
    \/ call_end
    \/ \E p \in InstallRoots : change_starpath(p)
    \/ session_end

Spec == Init /\ [][Next]_vars

(***************************************************************************)
(* The session as a whole: every public operation (starcomm, the two       *)
(* change_starpath, set_interactive), the caller's os.chdir, and the two   *)
(* ways the interpreter ends, with the calls of the documented example.    *)
(***************************************************************************)
\* starcomm('$KAPPA_DIR/stats', 'stats'), with ndf='x' and without, and the
\* same for the command '/nope', which does not exist
SessionCalls ==
    [command : {CmdDollar, CmdNope}, commandname : {stats}, args : {<<>>},
     kwargs : {<<>>, << [k |-> <<"n","d","f">>, v |-> PyStr(<<"x">>)] >>}]

\* a primitive whose name is no identifier once lower-cased
Leaf2X == [LeafMean EXCEPT !.name = <<"2","X">>]

\* what a child may leave in the scratch directory: a container, one whose
\* component names namedtuple refuses, or a file that cannot be read
SessionContainers ==
    ChildContainers \cup {Container(<<Leaf2X>>)} \cup UnreadableFiles

NextSession ==
    \/ \E in \in SessionCalls : starcomm_call(in)
    \/ \E out \in ChildOutputs, hds \in SessionContainers \cup {NoWrite} :
           child_exit(out, hds)
    \/ starcomm_return
    \/ call_end
    \/ \E p \in InstallRoots : change_starpath(p)
    \/ \E p \in InstallRoots : star_change_starpath(p)
    \/ \E choice \in BOOLEAN : set_interactive(choice)
    \/ \E d \in WorkDirs : chdir(d)
    \/ session_end
    \/ session_abort

SpecSession == Init /\ [][NextSession]_vars

(***************************************************************************)
(* Two overlapping calls: two threads of one interpreter call starcomm     *)
(* with the same command name.  starcomm takes no lock, and while one      *)
(* thread waits in proc.communicate() the other runs.  pc, call, frame,    *)
(* proc, outcome, spawns and decodes are those of the thread tid; other    *)
(* holds those of the thread that is not running.                          *)
(***************************************************************************)
\* the call of the running thread
ThisThread == [pc |-> pc, call |-> call, frame |-> frame, proc |-> proc,
               outcome |-> outcome, spawns |-> spawns, decodes |-> decodes]

\* the interpreter switches to the other thread
switch ==
    /\ session = "running"
    /\ tid' = 3 - tid
    /\ other' = ThisThread
    /\ pc' = other.pc
    /\ call' = other.call
    /\ frame' = other.frame
    /\ proc' = other.proc
    /\ outcome' = other.outcome
    /\ spawns' = other.spawns
    /\ decodes' = other.decodes
    /\ UNCHANGED << py3, cwd, starpath, env, adamdir, dirs, files, session >>

\* both threads call starcomm('$KAPPA_DIR/stats', 'stats')
RaceCalls ==
    [command : {CmdDollar, CmdBraces}, commandname : {stats}, args : {<<>>},
     kwargs : {<<>>}]

\* the parameter file the child of thread t writes: the two children were
\* given different data, so their files differ
RaceContainer(t) ==
    IF t = 1 THEN Container(<<LeafMean>>)
    ELSE Container(<<Struct(<<"N","D","F">>, <<LeafNameptr(<<"M","3","1">>)>>)>>)

InitRace ==
    /\ py3 \in BOOLEAN
    /\ starpath = PyStr(RootA)
    /\ cwd = StartDir
    /\ adamdir = TmpAdam
    /\ env = PyDict(setup_starlink_environ(RootA, TmpAdam, TRUE))
    /\ dirs = {PathJoin(StartDir, TmpAdam)}
    /\ files = {}
    /\ session = "running"
    /\ pc = "idle"
    /\ call = NoCall
    /\ frame = NoFrame
    /\ proc = NoProc
    /\ outcome = Pending
    /\ spawns = 0
    /\ decodes = 0
    /\ tid = 1
    /\ other = IdleThread

NextRace ==
    \/ \E in \in RaceCalls : starcomm_call(in)
    \/ \E out \in ChildOutputs : child_exit(out, RaceContainer(tid))
    \/ starcomm_return
    \/ switch

SpecRace == InitRace /\ [][NextRace]_vars

(***************************************************************************)
(* The decoder on its own: get_hds_values applied to one container.        *)
(***************************************************************************)
\* a _CHAR array of two elements
LeafIn == [name |-> <<"I","N">>, struc |-> FALSE, type |-> <<"_","C","H","A","R","*","8">>,
           shape |-> <<2>>, value |-> << <<" ","a"," ","b","\t">>, <<"c">> >>, comps |-> <<>>]

\* HDS keeps the names of the components of one structure distinct
DistinctNames(comps) ==
    \A i, j \in 1..Len(comps) : comps[i].name = comps[j].name => i = j

\* a structure two levels below the root
SubStruct == Struct(<<"M","O","R","E">>, <<LeafNameptr(<<"M","3","1">>)>>)

\* what a structure below the root may hold
KidChoices == {LeafNameptr(<<"M","3","1">>), LeafNameptr(<<" ","M","3","3"," ">>), LeafMean, SubStruct}

KidLists == {k \in SeqsUpTo(KidChoices, MaxKids) : k # <<>> /\ DistinctNames(k)}

\* what the root may hold: primitives, the structures of the parameters NDF
\* and IS (a reserved word once lower-cased), and the ADAM_DYNDEF structure
TopChoices ==
    {LeafMean, LeafIn, Struct(<<"A","D","A","M","_","D","Y","N","D","E","F">>, <<LeafMean>>)}
    \cup {Struct(n, k) : n \in {<<"N","D","F">>, <<"I","S">>}, k \in KidLists}

Containers ==
    {Container(t) : t \in {c \in SeqsUpTo(TopChoices, MaxTop) : DistinctNames(c)}}

\* a parameter file of the command stats, or of no command the call names, is
\* in the scratch directory
InitDecode ==
    /\ py3 \in BOOLEAN
    /\ starpath = PyStr(RootA)
    /\ cwd = StartDir
    /\ adamdir = TmpAdam
    /\ env = PyDict(setup_starlink_environ(RootA, TmpAdam, TRUE))
    /\ dirs = {PathJoin(StartDir, TmpAdam)}
    /\ \E c \in Containers :
           files = {[dir |-> PathJoin(StartDir, TmpAdam), name |-> stats, hds |-> c]}
    /\ session = "running"
    /\ pc = "todecode"
    /\ \E n \in CommandNames : call = [NoCall EXCEPT !.commandname = n]
    /\ frame = NoFrame
    /\ proc = NoProc
    /\ outcome = Pending
    /\ spawns = 0
    /\ decodes = 0
    /\ tid = 1
    /\ other = IdleThread

\* result = hdsutils.get_hds_values(commandname, adamdir)
decode_step ==
    /\ pc = "todecode"
    /\ outcome' = get_hds_values(call.commandname, PathJoin(cwd, adamdir), files, py3)
    /\ decodes' = decodes + 1
    /\ pc' = "decoded"
    /\ UNCHANGED << py3, cwd, tid, other, starpath, env, adamdir, dirs,
                    files, session, call,
                    frame, proc, spawns >>

NextDecode == decode_step

SpecDecode == InitDecode /\ [][NextDecode]_vars

(***************************************************************************)
(* Names on their own: the reserved-word marker of hdsutils, the keyword   *)
(* names of _make_argument_list and the functions create_module emits.     *)
(***************************************************************************)
NameLetters == {"i", "s", "n"}

\* lower-case names of up to MaxName characters that start with a letter:
\* reserved words (is, in), names ending with '_', and others
LowerNames ==
    {n \in SeqsUpTo(NameLetters \cup {"_"}, MaxName) :
        n # <<>> /\ n[1] \in NameLetters}

\* commanddict[name]: '$KAPPA_DIR/<name>'
CommandLine(name) == <<"$">> \o KAPPA_DIR \o <<"/">> \o name

\* create_module for one name of the help file:
\*     if iskeyword(name): name = name + '_'
\*     'def {}({}):'.format(name, callsignature)
\*     'return wrapper.starcomm("{}", "{}", {})'.format(commandline, name, ...)
\* def: the function's name; command and commandname: the first and second
\* argument of the starcomm call in its body
methodcode(name, commandline) ==
    LET name2 == IF iskeyword(name) THEN name \o <<"_">> ELSE name
    IN  [def |-> name2, command |-> commandline, commandname |-> name2]

InitNames ==
    /\ py3 \in BOOLEAN
    /\ starpath = PyStr(RootA)
    /\ cwd = StartDir
    /\ adamdir = TmpAdam
    /\ env = PyDict(setup_starlink_environ(RootA, TmpAdam, TRUE))
    /\ dirs = {PathJoin(StartDir, TmpAdam)}
    /\ files = {}
    /\ session = "running"
    /\ pc = "name"
    /\ \E n \in LowerNames : call = [NoCall EXCEPT !.commandname = n]
    /\ frame = NoFrame
    /\ proc = NoProc
    /\ outcome = Pending
    /\ spawns = 0
    /\ decodes = 0
    /\ tid = 1
    /\ other = IdleThread

\* the name becomes a field name of the record (hdsutils.py 71-73) and the
\* field name is used as a keyword: _make_argument_list(**{field: 'x'})
keyword_step ==
    /\ pc = "name"
    /\ LET kw == << [k |-> FieldName(call.commandname), v |-> PyStr(<<"x">>)] >>
       IN  frame' = [NoFrame EXCEPT !.kwargs = kw,
                                    !.arg = make_argument_list(<<>>, kw)]
    /\ pc' = "sent"
    /\ UNCHANGED << py3, cwd, tid, other, starpath, env, adamdir, dirs,
                    files, session, call, proc, outcome, spawns, decodes >>

\* create_module emits the function of the command of this name; frame is
\* the starcomm call of its body
create_module ==
    /\ pc = "name"
    /\ LET m == methodcode(call.commandname, CommandLine(call.commandname))
       IN  /\ frame' = [NoFrame EXCEPT !.command = m.command]
           /\ outcome' = Return(PyTuple(<<PyStr(m.def), PyStr(m.commandname)>>))
    /\ pc' = "emitted"
    /\ UNCHANGED << py3, cwd, tid, other, starpath, env, adamdir, dirs,
                    files, session, call, proc, spawns, decodes >>

NextNames == keyword_step \/ create_module

SpecNames == InitNames /\ [][NextNames]_vars

(***************************************************************************)
(* Claims about starcomm (specification Spec).                             *)
(***************************************************************************)
\* the child of the current call was started
Spawned == proc.state # "none"

\* the parameter name of an element 'name=value': the text before the first
\* '=', and <<>> for an element without '='
RECURSIVE ElementName(_)
ElementName(e) ==
    IF ~ Contains(e, <<"=">>) THEN <<>>
    ELSE IF e[1] = "=" THEN <<>>
    ELSE <<e[1]>> \o (IF Contains(Tail(e), <<"=">>) THEN ElementName(Tail(e)) ELSE <<>>)

CallerPassed(key) == \E i \in 1..Len(call.kwargs) : call.kwargs[i].k = key

\* C1: when the caller passes returnStdOut, no element of the vector handed
\* to the child has the parameter name returnstdout, in any letter case.
C1_FlagNeverSent ==
    (Spawned /\ CallerPassed(returnStdOutKey))
    => \A i \in 2..Len(proc.argv) :
           Lower(ElementName(proc.argv[i])) # Lower(returnStdOutKey)

\* the value the caller gave returnStdOut, False when it was not passed
CallerReturnStdOut ==
    IF CallerPassed(returnStdOutKey)
    THEN call.kwargs[CHOOSE i \in 1..Len(call.kwargs) :
                         call.kwargs[i].k = returnStdOutKey].v
    ELSE PyBool(FALSE)

\* the record the decoder gives for the current call's command name
DecodedNow == get_hds_values(call.commandname, PathJoin(cwd, adamdir), files, py3)

\* C2: a successful call returns the pair (record, stdout) when the caller
\* passed returnStdOut=True, and the record alone otherwise.
C2_ReturnShape ==
    (pc = "done" /\ Spawned /\ proc.status = 0 /\ outcome.kind = "return")
    => IF Truthy(CallerReturnStdOut)
       THEN outcome.v = PyTuple(<<DecodedNow.v, PyText(py3, proc.stdout)>>)
       ELSE outcome.v = DecodedNow.v

\* the lower-cased names of the caller's keywords, each once, in the order of
\* their first use
RECURSIVE C3_Names(_)
C3_Names(kwargs) ==
    IF kwargs = <<>> THEN <<>>
    ELSE LET n == Len(kwargs)
             before == C3_Names(SubSeq(kwargs, 1, n - 1))
             name == Lower(kwargs[n].k)
         IN  IF \E i \in 1..Len(before) : before[i] = name
             THEN before ELSE Append(before, name)

\* the value of the last keyword of the caller with this lower-cased name
C3_Value(kwargs, name) ==
    kwargs[CHOOSE i \in 1..Len(kwargs) :
               /\ Lower(kwargs[i].k) = name
               /\ \A j \in (i + 1)..Len(kwargs) : Lower(kwargs[j].k) # name].v

PlaceholderLeft(command) ==
    \E i \in 1..Len(starlink_environdict_substitute) :
        LET name == starlink_environdict_substitute[i].name
        IN  \/ Contains(command, <<"$">> \o name)
            \/ Contains(command, <<"$", "{">> \o name \o <<"}">>)

\* C4: $N and ${N} are replaced by env[N] before the launch: '$KAPPA_DIR/stats'
\* and '${KAPPA_DIR}/stats' both resolve to env[KAPPA_DIR] + '/stats', every
\* occurrence in one command is replaced, and no placeholder of a table name
\* is left in the resolved command.
C4_PlaceholdersResolved ==
    (pc # "idle" /\ spawns = 1) =>
        /\ ~ PlaceholderLeft(frame.command)
        /\ call.command \in {CmdDollar, CmdBraces}
           => frame.command = env.v["KAPPA_DIR"] \o <<"/","s","t","a","t","s">>
        /\ call.command = CmdTwice
           => frame.command = env.v["KAPPA_DIR"] \o env.v["KAPPA_DIR"]
        /\ call.command = CmdSmurf
           => frame.command = env.v["SMURF_DIR"] \o <<"/","s","t","a","t","s">>
        /\ call.command = CmdNope => frame.command = CmdNope
        /\ Spawned => proc.argv[1] = frame.command

\* C4 witness: '${KAPPA_DIR}/stats' started as /s/bin/kappa/stats
C4_Witness ==
    /\ pc = "running"
    /\ call.command = CmdBraces
    /\ proc.argv[1] = PathJoin(RootA, StatsRel)

\* C5: when the resolved command does not exist the call raises the
\* 'does not exist' OSError, which is not the error of a non-zero exit, no
\* child has run and the container is not decoded.
C5_CommandNotFound ==
    /\ (pc = "done" /\ spawns = 1 /\ PopenErrno(frame.command) = 2)
       => /\ outcome.kind = "raise"
          /\ outcome.v.etype = "OSError"
          /\ outcome.v.info.notfound
          /\ outcome.v.info.command = frame.command
          /\ ~ Spawned
          /\ decodes = 0
    /\ (pc = "done" /\ Spawned /\ proc.status # 0)
       => ~ (outcome.kind = "raise" /\ outcome.v.etype = "OSError")

\* C5 witness: '/nope' was called and the not-found error raised
C5_Witness ==
    /\ pc = "done"
    /\ call.command = CmdNope
    /\ outcome.kind = "raise"
    /\ outcome.v.etype = "OSError"
    /\ outcome.v.info.notfound

\* C6: after a non-zero exit the call raises the execution error, which
\* carries the resolved command, the argument vector, stdout and stderr.
C6_ExecutionFailedCarriesOutput ==
    (pc = "done" /\ Spawned /\ proc.status # 0)
    => /\ outcome.kind = "raise"
       /\ outcome.v.etype = "Exception"
       /\ outcome.v.info.command = frame.command
       /\ outcome.v.info.arg = frame.arg
       /\ outcome.v.info.stdout = proc.stdout
       /\ outcome.v.info.stderr = proc.stderr

\* C7: the decoder runs at most once in a call, only after the child has
\* exited and only when its status is 0; after a non-zero exit or a failed
\* spawn it has not run and no record is returned.
C7_DecodeAfterSuccessOnly ==
    /\ decodes <= 1
    /\ decodes = 1 => (pc = "done" /\ proc.state = "exited" /\ proc.status = 0)
    /\ pc \in {"running", "exited"} => decodes = 0
    /\ (pc = "done" /\ (~ Spawned \/ proc.status # 0))
       => (decodes = 0 /\ outcome.kind = "raise")

\* C7 witness: a call ended after the child exited 0 and the decoder ran
C7_Witness ==
    /\ pc = "done"
    /\ proc.state = "exited"
    /\ proc.status = 0
    /\ decodes = 1

\* C8: when no container of the command name is in the scratch directory
\* after a successful run, the decoder gives None and starcomm returns None.
C8_NoContainerGivesNone ==
    (pc = "done" /\ Spawned /\ proc.status = 0
        /\ FileAt(files, PathJoin(cwd, adamdir), call.commandname) = {})
    => /\ DecodedNow = Return(PyNone)
       /\ outcome = Return(PyNone)

\* C8 witness: a successful call that found no container and returned None
C8_Witness ==
    /\ pc = "done"
    /\ Spawned
    /\ proc.status = 0
    /\ decodes = 1
    /\ FileAt(files, PathJoin(cwd, adamdir), call.commandname) = {}
    /\ outcome = Return(PyNone)

(***************************************************************************)
(* Claims about get_hds_values (specification SpecDecode).                 *)
(***************************************************************************)
\* the decoder has run and built a record
Decoded ==
    /\ pc = "decoded"
    /\ outcome.kind = "return"
    /\ outcome.v.kind = "starresults"

\* the fields of the record, a dict
Record == outcome.v.v

\* the root of the container the decoder opened
Root == (CHOOSE f \in FileAt(files, PathJoin(cwd, adamdir), call.commandname) : TRUE).hds

IsDyndef(c) == Lower(c.name) = adam_dyndef

\* the primitives at any depth below comps, those of ADAM_DYNDEF left out
RECURSIVE LeavesBelow(_)
LeavesBelow(comps) ==
    UNION { IF comps[i].struc
            THEN (IF IsDyndef(comps[i]) THEN {} ELSE LeavesBelow(comps[i].comps))
            ELSE {comps[i]} : i \in 1..Len(comps) }

\* the value the record holds for a primitive: text stripped, an array as a
\* list
LeafValue(c) ==
    IF Contains(Lower(c.type), CharWord)
    THEN IF c.shape # <<>>
         THEN PyList([i \in 1..Len(c.value) |-> PyStr(Strip(c.value[i]))])
         ELSE PyStr(Strip(c.value[1]))
    ELSE IF c.shape # <<>>
         THEN PyList([i \in 1..Len(c.value) |-> PyInt(c.value[i])])
         ELSE PyInt(c.value[1])

NoNestedMapping == \A i \in 1..Len(Record) : Record[i].v.kind # "dict"

\* C9 as stated: every primitive at any depth is a top-level field of the
\* record under its own name, and the record holds no nested mapping.
C9_EveryLeafTopLevel ==
    Decoded =>
        /\ \A c \in LeavesBelow(Root.comps) :
               \/ DictHas(Record, FieldName(c.name))
               \/ DictHas(Record, Lower(c.name))
        /\ NoNestedMapping

\* the names of the components directly under the root, ADAM_DYNDEF left out
TopFieldNames ==
    LET kept == SelectSeq(Root.comps, LAMBDA c : ~ IsDyndef(c))
    IN  [i \in 1..Len(kept) |-> FieldName(kept[i].name)]

\* C9 as amended: the fields of the record are the components directly under
\* the root other than ADAM_DYNDEF, each under its own name; a primitive
\* directly under the root is a field holding its value; a primitive below a
\* structure is no field of its own; the record holds no nested mapping.
C9_TopLevelFieldsOnly ==
    Decoded =>
        /\ DictKeys(Record) = TopFieldNames
        /\ \A i \in 1..Len(Root.comps) :
               (~ Root.comps[i].struc)
               => DictGet(Record, FieldName(Root.comps[i].name))
                      = LeafValue(Root.comps[i])
        /\ NoNestedMapping

\* C9 witness: a container whose structure NDF holds NAMEPTR and MEAN was
\* decoded to the one field ndf
C9_Witness ==
    /\ Decoded
    /\ Len(Root.comps) = 1
    /\ Root.comps[1].struc
    /\ Len(Root.comps[1].comps) = 2
    /\ LeafMean \in LeavesBelow(Root.comps)
    /\ DictKeys(Record) = << <<"n","d","f">> >>

\* the structures directly under the root that hold a primitive NAMEPTR
HasNameptr(c) ==
    /\ c.struc
    /\ ~ IsDyndef(c)
    /\ \E i \in 1..Len(c.comps) :
           ~ c.comps[i].struc /\ Lower(c.comps[i].name) = nameptr

NameptrOf(c) ==
    c.comps[CHOOSE i \in 1..Len(c.comps) :
                ~ c.comps[i].struc /\ Lower(c.comps[i].name) = nameptr]

TwoNameptrSiblings ==
    /\ Len(Root.comps) = 2
    /\ HasNameptr(Root.comps[1])
    /\ HasNameptr(Root.comps[2])

\* C10 as stated: with two sibling structures that each hold nameptr, the
\* record has one flat field nameptr, holding the later sibling's value.
C10_LastWriteWins ==
    (Decoded /\ TwoNameptrSiblings)
    => /\ DictHas(Record, nameptr)
       /\ DictGet(Record, nameptr) = LeafValue(NameptrOf(Root.comps[2]))

\* C10 as amended: with two sibling structures that each hold nameptr, the
\* record has no field nameptr; it has one field per sibling, under the
\* sibling's name, and a sibling whose only component is nameptr gives its
\* own nameptr value: neither value overwrites the other.
C10_OneFieldPerSibling ==
    (Decoded /\ TwoNameptrSiblings)
    => /\ ~ DictHas(Record, nameptr)
       /\ \A i \in 1..2 :
              LET sib == Root.comps[i]
              IN  /\ DictHas(Record, FieldName(sib.name))
                  /\ Len(sib.comps) = 1
                     => DictGet(Record, FieldName(sib.name))
                            = LeafValue(NameptrOf(sib))

\* C10 witness: two siblings holding only nameptr, with different values,
\* were decoded to two fields holding the two values
C10_Witness ==
    /\ Decoded
    /\ TwoNameptrSiblings
    /\ Len(Root.comps[1].comps) = 1
    /\ Len(Root.comps[2].comps) = 1
    /\ NameptrOf(Root.comps[1]).value # NameptrOf(Root.comps[2]).value
    /\ Len(Record) = 2
    /\ Record[1].v # Record[2].v
    /\ Record[2].v = LeafValue(NameptrOf(Root.comps[2]))

\* r is t without its leading and trailing whitespace: t is whitespace, r,
\* whitespace, and r neither starts nor ends with whitespace
IsTrimOf(r, t) ==
    \E i \in 0..Len(t) :
        /\ i + Len(r) <= Len(t)
        /\ SubSeq(t, i + 1, i + Len(r)) = r
        /\ \A k \in 1..i : IsSpace(t[k])
        /\ \A k \in (i + Len(r) + 1)..Len(t) : IsSpace(t[k])
        /\ r # <<>> => (~ IsSpace(r[1]) /\ ~ IsSpace(r[Len(r)]))

\* a structure whose only component is a primitive named NAMEPTR
OnlyNameptr(c) ==
    /\ c.struc
    /\ Len(c.comps) = 1
    /\ ~ c.comps[1].struc
    /\ Lower(c.comps[1].name) = nameptr

\* C11: for a structure directly under the root whose only component is a
\* value named nameptr, the record's field of the structure holds the
\* value itself, a string (the text "M31" for a NAMEPTR of "M31"), and not a
\* mapping or a list of the mapping's keys.
C11_NameptrCollapse ==
    Decoded =>
        \A i \in 1..Len(Root.comps) :
            LET sib == Root.comps[i]
            IN  (OnlyNameptr(sib) /\ ~ IsDyndef(sib))
                => LET f == DictGet(Record, FieldName(sib.name))
                   IN  /\ f.kind = "str"
                       /\ IsTrimOf(f.v, sib.comps[1].value[1])

\* C11 witness: the structure NDF holding only NAMEPTR = "M31" was decoded to
\* the field ndf = "M31"
C11_Witness ==
    /\ Decoded
    /\ Len(Root.comps) = 1
    /\ OnlyNameptr(Root.comps[1])
    /\ Root.comps[1].comps[1].value = << <<"M","3","1">> >>
    /\ Record = << [k |-> <<"n","d","f">>, v |-> PyStr(<<"M","3","1">>)] >>

IsCharType(c) == Contains(Lower(c.type), CharWord)

\* the value v is the text of the character primitive c, trimmed: a string
\* for a scalar, and for an array a list of as many strings, in order
TrimmedValueOf(v, c) ==
    IF c.shape = <<>>
    THEN v.kind = "str" /\ IsTrimOf(v.v, c.value[1])
    ELSE /\ v.kind = "list"
         /\ Len(v.v) = Len(c.value)
         /\ \A k \in 1..Len(c.value) :
                v.v[k].kind = "str" /\ IsTrimOf(v.v[k].v, c.value[k])

\* C12: every character value the record holds (a character primitive
\* directly under the root, or the NAMEPTR a structure collapsed to) is the
\* text without its leading and trailing whitespace; a character array is a
\* list of the same length whose elements are the trimmed texts, in order.
C12_CharValuesTrimmed ==
    Decoded =>
        \A i \in 1..Len(Root.comps) :
            LET c == Root.comps[i]
            IN  /\ (~ c.struc /\ IsCharType(c))
                   => TrimmedValueOf(DictGet(Record, FieldName(c.name)), c)
                /\ (OnlyNameptr(c) /\ ~ IsDyndef(c) /\ IsCharType(c.comps[1]))
                   => TrimmedValueOf(DictGet(Record, FieldName(c.name)), c.comps[1])

\* C12 witness: the array IN = [' a b\t', 'c'] was decoded to ['a b', 'c']
C12_Witness ==
    /\ Decoded
    /\ \E i \in 1..Len(Root.comps) : Root.comps[i] = LeafIn
    /\ DictGet(Record, <<"i","n","_">>)
           = PyList(<< PyStr(<<"a"," ","b">>), PyStr(<<"c">>) >>)

\* C13: the record has no field named adam_dyndef, whether or not the
\* container holds the component ADAM_DYNDEF.
C13_NoAdamDyndef ==
    Decoded => \A i \in 1..Len(Record) : Lower(Record[i].k) # adam_dyndef

\* C13 witness: a container holding ADAM_DYNDEF and MEAN was decoded to the
\* one field mean
C13_Witness ==
    /\ Decoded
    /\ Len(Root.comps) = 2
    /\ \E i \in 1..2 : IsDyndef(Root.comps[i])
    /\ DictKeys(Record) = << <<"m","e","a","n">> >>

\* the reserved words among the lower-cased names of the model's components
ReservedNames == { <<"i","n">>, <<"i","s">> }

\* C15: the field names of the record are the lower-cased names of the
\* components directly under the root, with one trailing underscore exactly
\* when the lower-cased name is a reserved word; no field name is a reserved
\* word.
C15_FieldNaming ==
    Decoded =>
        LET kept == SelectSeq(Root.comps, LAMBDA c : ~ IsDyndef(c))
        IN  /\ Len(Record) = Len(kept)
            /\ \A i \in 1..Len(kept) :
                   LET low == Lower(kept[i].name)
                   IN  Record[i].k = IF low \in ReservedNames
                                     THEN low \o <<"_">> ELSE low
            /\ \A i \in 1..Len(Record) : ~ iskeyword(Record[i].k)

\* C15 witness: the primitive IN and the structure IS were decoded to the
\* fields in_ and is_
C15_Witness ==
    /\ Decoded
    /\ Len(Root.comps) = 2
    /\ ~ Root.comps[1].struc
    /\ Root.comps[2].struc
    /\ DictKeys(Record) = << <<"i","n","_">>, <<"i","s","_">> >>

(***************************************************************************)
(* Claims about the argument vector (specification Spec).                  *)
(***************************************************************************)
\* the value of an element 'name=value': the text after the first '='
RECURSIVE ElementValue(_)
ElementValue(e) ==
    IF e = <<>> THEN <<>>
    ELSE IF e[1] = "=" THEN Tail(e)
    ELSE ElementValue(Tail(e))

\* the caller's name in lower case, one trailing underscore removed
C14_SentName(key) ==
    LET low == Lower(key)
    IN  IF low # <<>> /\ low[Len(low)] = "_"
        THEN SubSeq(low, 1, Len(low) - 1) ELSE low

\* the elements of the vector after the command and the positional values
KeywordPart == SubSeq(proc.argv, 2 + Len(call.args), Len(proc.argv))

\* C14: every keyword of the caller is sent in an element whose name is the
\* caller's name in lower case with one trailing underscore removed (in_
\* as in, NDF as ndf), every name=value element comes from such a keyword,
\* and its value has the letter case the caller gave it.
C14_KeywordNames ==
    Spawned =>
        /\ \A i \in 1..Len(call.kwargs) :
               \E e \in 1..Len(KeywordPart) :
                   ElementName(KeywordPart[e]) = C14_SentName(call.kwargs[i].k)
        /\ \A e \in 1..Len(KeywordPart) :
               \E i \in 1..Len(call.kwargs) :
                   /\ ElementName(KeywordPart[e]) = C14_SentName(call.kwargs[i].k)
                   /\ RStrip(ElementValue(KeywordPart[e]))
                          = RStrip(Str(call.kwargs[i].v))

\* C14 witness: in_='z' and NDF='Y ' were sent as in=z and ndf=Y
C14_Witness ==
    /\ Spawned
    /\ Len(call.kwargs) = 2
    /\ \E e \in 1..Len(KeywordPart) : KeywordPart[e] = <<"i","n","=","z">>
    /\ \E e \in 1..Len(KeywordPart) : KeywordPart[e] = <<"n","d","f","=","Y">>

\* C16: in the vector the positional elements come first, in the caller's
\* order, and the keyword elements follow in the order in which the caller
\* supplied the keywords.
C16_CallerOrder ==
    Spawned =>
        LET names == C3_Names(call.kwargs)
            np == Len(call.args)
        IN  /\ \A i \in 1..np : proc.argv[1 + i] = RStrip(Str(call.args[i]))
            /\ Len(KeywordPart) = Len(names)
            /\ \A j \in 1..Len(names) :
                   ElementName(KeywordPart[j]) = C14_SentName(names[j])

(***************************************************************************)
(* Claims about the session (specification SpecSession).                   *)
(***************************************************************************)
\* the step changes the environment mapping
EnvChanged ==
    \/ env'.kind # env.kind
    \/ env.kind = "dict" /\ env'.v # env.v

\* the step is a change_starpath, of wrapper.py or of star.py
ChangeStarpathStep ==
    \E p \in InstallRoots : change_starpath(p) \/ star_change_starpath(p)

\* every entry other than ADAM_NOPROMPT is after the step what it was before
OnlyNoPromptSet ==
    /\ env.kind = "dict"
    /\ env'.kind = "dict"
    /\ DOMAIN env'.v = DOMAIN env.v \cup {"ADAM_NOPROMPT"}
    /\ \A name \in DOMAIN env.v \ {"ADAM_NOPROMPT"} : env'.v[name] = env.v[name]

\* C17 as stated: the environment mapping changes only in a change_starpath
\* step; starcomm and set_interactive leave every entry unchanged.
C17_OnlyChangeStarpath == [][EnvChanged => ChangeStarpathStep]_vars

\* C17 as amended: the environment mapping changes only in a change_starpath
\* step, which builds the whole mapping again, and in a set_interactive
\* step, which sets the one entry ADAM_NOPROMPT and leaves every other entry
\* unchanged; starcomm leaves every entry unchanged.
C17_EnvFrame ==
    [][EnvChanged =>
          \/ ChangeStarpathStep
          \/ (\E choice \in BOOLEAN : set_interactive(choice)) /\ OnlyNoPromptSet]_vars

\* C17 witness: after set_interactive(True) a child was started with
\* ADAM_NOPROMPT = 0 and the other entries as change_starpath built them
C17_Witness ==
    /\ pc = "running"
    /\ proc.env["ADAM_NOPROMPT"] = <<"0">>
    /\ proc.env["STARUTIL_NOPROMPT"] = <<"1">>
    /\ proc.env["KAPPA_DIR"] = PathJoin(RootB, <<"b","i","n","/","k","a","p","p","a">>)

\* C18: once the session has ended, in the normal way or not, the scratch
\* directory created at its start is gone, whatever happened in between.
C18_ScratchRemoved ==
    session # "running" => PathJoin(StartDir, TmpAdam) \notin dirs

\* STARLINK_DIR and the package directories of the mapping are paths
\* below the install root p (STARLINK_DIR is p itself, written p or p/)
EnvDerivedFrom(e, p) ==
    /\ e.kind = "dict"
    /\ e.v["STARLINK_DIR"] \in {p, p \o <<"/">>}
    /\ \A i \in 1..Len(starlink_environdict_substitute) :
           LET t == starlink_environdict_substitute[i]
           IN  e.v[t.key] = PathJoin(p, t.rel)

\* C19: after change_starpath(p), of wrapper.py or of star.py, the module's
\* starpath is p and STARLINK_DIR and the package directories of the
\* environment mapping are derived from p.
C19_StarpathFollows ==
    [][\A p \in InstallRoots :
          (change_starpath(p) \/ star_change_starpath(p))
          => (starpath' = PyStr(p) /\ EnvDerivedFrom(env', p))]_vars

(***************************************************************************)
(* Claims about overlapping calls (specification SpecRace).                *)
(***************************************************************************)
\* the parameter file stats of the scratch directory is the one the child
\* of thread t wrote
HoldsFileOf(t) ==
    \E f \in files :
        /\ f.dir = PathJoin(StartDir, TmpAdam)
        /\ f.name = stats
        /\ f.hds = RaceContainer(t)

\* the record get_hds_values builds from the file of the child of thread t
RecordOf(t) == DecodeOpened(stats, RaceContainer(t), py3)

\* C20: when the first call comes back from its child, which exited with
\* status 0, and the file of the command name is by then the one the second
\* call's child wrote (it was written after the first child's exit and
\* before the first call's decode), the first call returns the record of
\* the second call's file, not of its own; no lock prevents it.
C20_FirstReturnsSecondsRecord ==
    [][(tid = 1 /\ tid' = 1 /\ pc = "exited" /\ pc' = "done"
          /\ proc.status = 0 /\ HoldsFileOf(2))
       => outcome' = RecordOf(2)]_vars

\* C20 witness: the first call has returned the record of the second
\* call's file, which differs from the record of its own child's file
C20_Witness ==
    /\ tid = 1
    /\ pc = "done"
    /\ proc.state = "exited"
    /\ proc.status = 0
    /\ other.proc.state = "exited"
    /\ outcome.kind = "return"
    /\ outcome = RecordOf(2)
    /\ outcome # RecordOf(1)

(***************************************************************************)
(* Claims about failures of the decode (specification SpecSession).        *)
(***************************************************************************)
\* the files the decoder of the current call finds under the command name
FilesNow == FileAt(files, PathJoin(cwd, adamdir), call.commandname)

\* the exception the try block of get_hds_values ends with for a file that
\* is there: the library's for a file it cannot read, namedtuple's for
\* component names that are no identifiers
DecodeErrorOf(hdsobj) ==
    IF IsUnreadable(hdsobj) THEN OpenError(hdsobj) ELSE "ValueError"

\* the file is there, and it cannot be read or gives no record
DecodeFails(hdsobj) ==
    \/ IsUnreadable(hdsobj)
    \/ \E i \in 1..Len(hdsobj.comps) : ~ IsLetter(hdsobj.comps[i].name[1])

\* C21: when the child has run with status 0 and its container is there but
\* cannot be decoded, get_hds_values and starcomm raise the decoder's own
\* error unchanged: the call does not return None, and raises neither the
\* 'does not exist' error nor the error of a failed run; the 'does not
\* exist' error is raised only when no child was started.
C21_DecodeFailurePropagates ==
    /\ (pc = "done" /\ Spawned /\ proc.status = 0)
       => \A f \in FilesNow :
              DecodeFails(f.hds)
              => /\ DecodedNow = Raise(DecodeErrorOf(f.hds), call.commandname)
                 /\ outcome = Raise(DecodeErrorOf(f.hds), call.commandname)
    /\ (pc = "done" /\ Spawned)
       => ~ (outcome.kind = "raise" /\ outcome.v.etype = "OSError")

\* C22: a call starts the external program at most once: while the child
\* runs and after it has exited one Popen call was made, and when the call
\* has returned or raised (a record, None, the error of a failed run, of a
\* failed spawn or of a failed decode) still no more than one.
C22_AtMostOneSpawn ==
    /\ spawns \in {0, 1}
    /\ pc \in {"running", "exited"} => spawns = 1
    /\ (pc = "done" /\ Spawned) => spawns = 1
    /\ pc = "idle" => spawns = 0

\* C22 witness: a call whose child exited with status 1 has raised, after
\* one Popen call
C22_Witness ==
    /\ pc = "done"
    /\ proc.state = "exited"
    /\ proc.status = 1
    /\ outcome.kind = "raise"
    /\ spawns = 1

(***************************************************************************)
(* More claims about the argument vector (specification Spec).             *)
(***************************************************************************)
\* C23: the element of a positional value v is exactly str(v), and the
\* value part of the element of a keyword value v is exactly str(v), also
\* when str(v) ends with whitespace.
C23_TokenFidelity ==
    Spawned =>
        /\ \A i \in 1..Len(call.args) : proc.argv[1 + i] = Str(call.args[i])
        /\ \A e \in 1..Len(KeywordPart) :
               \E i \in 1..Len(call.kwargs) :
                   /\ ElementName(KeywordPart[e]) = C14_SentName(call.kwargs[i].k)
                   /\ ElementValue(KeywordPart[e]) = Str(call.kwargs[i].v)

\* the caller's keywords other than returnStdOut
SuppliedKeywords == {i \in 1..Len(call.kwargs) : call.kwargs[i].k # returnStdOutKey}

\* the name=value elements other than the one of returnStdOut
SentKeywords ==
    {e \in 1..Len(KeywordPart) :
        ElementName(KeywordPart[e]) # Lower(returnStdOutKey)}

\* C28: every keyword the caller supplies, returnStdOut apart, has one
\* name=value element of its own (none is dropped), and no two elements of
\* the vector have the same parameter name, also when the caller's names
\* differ only in letter case or by a trailing underscore.
C28_NoKeywordLost ==
    Spawned =>
        /\ Cardinality(SentKeywords) = Cardinality(SuppliedKeywords)
        /\ \A e1, e2 \in 1..Len(KeywordPart) :
               ElementName(KeywordPart[e1]) = ElementName(KeywordPart[e2])
               => e1 = e2

(***************************************************************************)
(* More claims about the session (specification SpecSession).              *)
(***************************************************************************)
\* C24: whenever the environment mapping is set, its entry ADAM_USER is the
\* scratch directory adamdir that starcomm hands to the decoder; the child
\* of every call is started with that entry, so it writes into the
\* directory the decoder reads; adamdir is after any sequence of operations
\* the path made at the start of the session.
C24_AdamUserIsAdamdir ==
    /\ adamdir = TmpAdam
    /\ env.kind = "dict" => env.v["ADAM_USER"] = adamdir
    /\ Spawned => /\ proc.env["ADAM_USER"] = adamdir
                  /\ PathJoin(cwd, proc.env["ADAM_USER"]) = PathJoin(cwd, adamdir)

\* C24 witness: after change_starpath to the second install root a child was
\* started with ADAM_USER the scratch directory
C24_Witness ==
    /\ pc = "running"
    /\ proc.env["KAPPA_DIR"] = PathJoin(RootB, <<"b","i","n","/","k","a","p","p","a">>)
    /\ proc.env["ADAM_USER"] = TmpAdam

\* C25: in a sequence of calls with one command name, the record a call
\* returns is decoded from the container that call's own child wrote; when
\* the child wrote none, the call returns None and never the record an
\* earlier call's child left.
C25_OwnChildsRecord ==
    (pc = "done" /\ Spawned /\ proc.status = 0 /\ outcome.kind = "return")
    => IF proc.wrote = NoWrite
       THEN outcome.v = PyNone
       ELSE Return(outcome.v) = OpenAndDecode(call.commandname, proc.wrote, py3)

\* a call whose child wrote nothing returns the record an earlier call left
C25_StaleRecord ==
    /\ pc = "done" /\ Spawned /\ proc.status = 0 /\ outcome.kind = "return"
    /\ proc.wrote = NoWrite
    /\ outcome.v # PyNone

\* the value x is in the value v: v is x, or v is a mapping one of whose
\* values holds x
RECURSIVE Carries(_, _)
Carries(v, x) ==
    \/ (v.kind = x.kind /\ v = x)
    \/ (v.kind = "dict" /\ \E i \in 1..Len(v.v) : Carries(v.v[i].v, x))

\* C26: decoding loses no data: the value of every primitive of the
\* container, at any depth and outside ADAM_DYNDEF, can be read from the
\* record; a structure of two or more components still carries the values
\* of its components after the normalisation.
C26_NoValueLost ==
    Decoded =>
        \A c \in LeavesBelow(Root.comps) :
            \E i \in 1..Len(Record) : Carries(Record[i].v, LeafValue(c))

\* a structure holding NAMEPTR and MEAN was decoded to a field that holds
\* neither value
C26_ValuesGone ==
    /\ Decoded
    /\ Len(Root.comps) = 1
    /\ Root.comps[1].struc
    /\ Len(Root.comps[1].comps) = 2
    /\ \A c \in LeavesBelow(Root.comps) : ~ Carries(Record[1].v, LeafValue(c))

(***************************************************************************)
(* The prompting mode across change_starpath (specification SpecSession).  *)
(***************************************************************************)
\* set_interactive(True) was the last word on prompting: children may prompt
PromptingOn(e) ==
    /\ e.kind = "dict"
    /\ "ADAM_NOPROMPT" \in DOMAIN e.v
    /\ e.v["ADAM_NOPROMPT"] = <<"0">>

\* children are told never to prompt
PromptingOff(e) ==
    /\ e.kind = "dict"
    /\ "ADAM_NOPROMPT" \in DOMAIN e.v
    /\ e.v["ADAM_NOPROMPT"] = <<"1">>

\* C27: change_starpath of the star module keeps the prompting mode: when
\* prompting was turned on with set_interactive(True), the environment built
\* for the new root does not have ADAM_NOPROMPT "1"; in every other case it
\* has ADAM_NOPROMPT "1".
C27_PromptingModeKept ==
    [][\A p \in InstallRoots :
           star_change_starpath(p)
           => IF PromptingOn(env) THEN ~ PromptingOff(env')
                                  ELSE PromptingOff(env')]_vars

(***************************************************************************)
(* Claims about names (specification SpecNames).                           *)
(***************************************************************************)
\* C29: for every lower-case name n, the field name FieldName(n) passed as
\* a keyword name to _make_argument_list gives an element whose parameter
\* name is n.
C29_MarkerRoundTrip ==
    pc = "sent" => ElementName(frame.arg[1]) = call.commandname

\* a name that is no reserved word and ends with '_' comes back shorter
C29_OwnUnderscoreLost ==
    /\ pc = "sent"
    /\ ~ iskeyword(call.commandname)
    /\ frame.kwargs[1].k = call.commandname
    /\ ElementName(frame.arg[1]) \o <<"_">> = call.commandname

\* the second argument of the starcomm call in the emitted function
EmittedCommandName == outcome.v.v[2].v

\* the name of the emitted function
EmittedDef == outcome.v.v[1].v

\* C30: the command name every emitted function passes to starcomm as its
\* second argument is the command's name in the help file, also when the
\* name is a reserved word and the function's name has the trailing '_'.
C30_TrueCommandName ==
    pc = "emitted" => EmittedCommandName = call.commandname

\* the function of a command whose name is a reserved word passes its own
\* name, with the '_', as the command name
C30_MarkedNamePassed ==
    /\ pc = "emitted"
    /\ iskeyword(call.commandname)
    /\ EmittedDef = call.commandname \o <<"_">>
    /\ EmittedCommandName = EmittedDef

====
